---- MODULE Spec2Model ----
(***************************************************************************)
(* Order Processing API (src/main.py): three FastAPI handlers over one     *)
(* SQLAlchemy table.  Handlers are plain `def` functions, so the server    *)
(* runs each request on a worker thread with a Session of its own; the     *)
(* requests interleave at their database round trips (query, commit,       *)
(* refresh).  Everything between two round trips touches only the          *)
(* request's own objects and is one step of the model.                     *)
(***************************************************************************)
EXTENDS Integers, Sequences, FiniteSets, TLC

\* Number of requests the server receives in one run; request r is the
\* r-th to arrive.
MaxReq == 2

Req == 1..MaxReq

\* constr(min_length=1, max_length=100)                        (main.py:56)
MinItemLen == 1
MaxItemLen == 100

\* Python's None: an absent header, an unset value.
None == "<None>"

----------------------------------------------------------------------------
(* Strings are sequences of one-character strings.                         *)

Rep(c, n) == [i \in 1..n |-> c]

RECURSIVE IndexOf(_, _, _)
\* Position of the first c in s at or after i; 0 when there is none.
IndexOf(s, c, i) ==
    IF i > Len(s) THEN 0
    ELSE IF s[i] = c THEN i
    ELSE IndexOf(s, c, i + 1)

Count(s, c) == Cardinality({i \in 1..Len(s) : s[i] = c})

Lower(c) ==
    CASE c = "A" -> "a"
      [] c = "B" -> "b"
      [] c = "C" -> "c"
      [] OTHER   -> c

----------------------------------------------------------------------------
\* No ORM object: the None that first() returns, an unset attribute.
NoOrder == [id |-> 0, customer_email |-> <<>>, item |-> <<>>, status |-> None]

(* class OrderStatus(str, Enum)                                            *)
OrderStatus == {"created", "processing", "completed", "cancelled"}

(* pydantic's EmailStr: one "@", a non-empty local part, a domain of       *)
(* non-empty dot-separated labels with at least one dot.                   *)
IsEmail(s) ==
    LET at == IndexOf(s, "@", 1) IN
    /\ Count(s, "@") = 1
    /\ at > 1
    /\ at < Len(s)
    /\ \E i \in (at + 1)..Len(s) : s[i] = "."
    /\ s[at + 1] # "."
    /\ s[Len(s)] # "."
    /\ \A i \in (at + 1)..(Len(s) - 1) : ~(s[i] = "." /\ s[i + 1] = ".")

(* The value EmailStr validation hands to the handler: the local part as   *)
(* sent, the domain lower-cased.                                           *)
EmailStr(s) ==
    LET at == IndexOf(s, "@", 1) IN
    [i \in 1..Len(s) |-> IF i > at THEN Lower(s[i]) ELSE s[i]]

\* Faulty variant of OrderCreate: the upper length bound off by one.
OrderCreate_offbyone(body) ==
    /\ IsEmail(body.customer_email)
    /\ Len(body.item) >= MinItemLen
    /\ Len(body.item) <= MaxItemLen + 1

(* class OrderCreate(BaseModel): whether the body validates.               *)
OrderCreate(body) ==
    /\ IsEmail(body.customer_email)
    /\ Len(body.item) >= MinItemLen
    /\ Len(body.item) <= MaxItemLen

(* class OrderUpdate(BaseModel): whether the body validates.               *)
OrderUpdate(body) == body.status \in OrderStatus

(* class OrderOut(BaseModel), orm_mode: the response body built from a row.*)
OrderOut(row) ==
    [id             |-> row.id,
     customer_email |-> EmailStr(row.customer_email),
     item           |-> row.item,
     status         |-> row.status]

----------------------------------------------------------------------------
(* Responses.                                                              *)
NoResponse == [status_code |-> 0, detail |-> None, order |-> NoOrder]

\* custom_http_exception_handler: {"detail": exc.detail} with exc.status_code
custom_http_exception_handler(status_code, detail) ==
    [status_code |-> status_code, detail |-> detail, order |-> NoOrder]

\* A handler's return value serialised through response_model=OrderOut.
OrderResponse(status_code, row) ==
    [status_code |-> status_code, detail |-> None, order |-> OrderOut(row)]

\* FastAPI's answer to a body that fails validation.
ValidationError == [status_code |-> 422, detail |-> "validation", order |-> NoOrder]

\* The server's answer to an exception no handler catches.
ServerError == [status_code |-> 500, detail |-> "Internal Server Error", order |-> NoOrder]

\* Faulty variant of staff_required: the role compared without regard to case.
staff_required_anycase(role) ==
    IF role \notin {"staff", "Staff"}
    THEN [raised |-> TRUE, user |-> None,
          response |-> [status_code |-> 403, detail |-> "Staff privileges required.",
                        order |-> NoOrder]]
    ELSE [raised |-> FALSE, user |-> role,
          response |-> [status_code |-> 0, detail |-> None, order |-> NoOrder]]

(* def staff_required(request): the role, or the HTTPException raised.     *)
staff_required(role) ==
    IF role # "staff"
    THEN [raised |-> TRUE, user |-> None,
          response |-> custom_http_exception_handler(403, "Staff privileges required.")]
    ELSE [raised |-> FALSE, user |-> role, response |-> NoResponse]

----------------------------------------------------------------------------
(* The orders table: a set of rows.                                        *)

Ids(table) == {o.id : o \in table}

Row(table, id) == CHOOSE o \in table : o.id = id

RECURSIVE MaxOf(_)
MaxOf(S) ==
    IF S = {} THEN 0
    ELSE LET x == CHOOSE y \in S : TRUE IN
         LET m == MaxOf(S \ {x}) IN IF x > m THEN x ELSE m

\* Faulty variant of first: the filter left out, so any row of the table is returned.
first_unfiltered(table, id) ==
    IF table = {} THEN NoOrder ELSE CHOOSE o \in table : TRUE

\* db.query(Order).filter(Order.id == order_id).first(): the row, or None.
first(table, id) == IF id \in Ids(table) THEN Row(table, id) ELSE NoOrder

\* Faulty variant of NextId: the largest id in use, handed out again.
NextId_reuse(table) == MaxOf(Ids(table))

\* INTEGER PRIMARY KEY: the row id SQLite assigns to an INSERT.
NextId(table) == MaxOf(Ids(table)) + 1

\* Faulty variant of Order: the two string columns filled from each other's argument.
Order_swapped(id, customer_email, item) ==
    [id |-> id, customer_email |-> item, item |-> customer_email,
     status |-> "created"]

\* class Order(Base): a new row; status takes the column default.
Order(id, customer_email, item) ==
    [id |-> id, customer_email |-> customer_email, item |-> item,
     status |-> "created"]

\* UPDATE orders SET status = ? WHERE id = ?
SetStatus(table, id, status) ==
    {IF o.id = id THEN [o EXCEPT !.status = status] ELSE o : o \in table}

----------------------------------------------------------------------------
(* Inputs.                                                                 *)

Widget == <<"W", "i", "d", "g", "e", "t">>

Lowercase == <<"a", "@", "b", ".", "c">>     \* a valid address, as stored
Uppercase == <<"a", "@", "B", ".", "c">>     \* valid, upper-case domain
NoAtSign  == <<"a", "b", ".", "c">>          \* not an address

\* The bodies sent to POST /orders/: valid ones (the longest item allowed
\* among them) and one for each way of being invalid.
CreateBodies ==
    {[customer_email |-> e[1], item |-> e[2], status |-> None] :
        e \in { <<Lowercase, Widget>>,
                <<Uppercase, Rep("w", MaxItemLen)>>,
                <<NoAtSign, Widget>>,
                <<Lowercase, <<>> >>,
                <<Lowercase, Rep("w", MaxItemLen + 1)>> }}

RoleInputs == {"staff", "Staff", None}

StatusInputs == {"processing", "completed", "shipped"}

OrderIdInputs == {1, 2}

NoBody == [customer_email |-> <<>>, item |-> <<>>, status |-> None]

CreateRequests ==
    {[endpoint |-> "create_order", role |-> ro, order_id |-> 0, body |-> b] :
        ro \in RoleInputs, b \in CreateBodies}

UpdateRequests ==
    {[endpoint |-> "update_order", role |-> ro, order_id |-> id,
      body |-> [customer_email |-> <<>>, item |-> <<>>, status |-> st]] :
        ro \in RoleInputs, id \in OrderIdInputs, st \in StatusInputs}

\* get_order reads no header: it is sent with the staff role and with none.
GetRequests ==
    {[endpoint |-> "get_order", role |-> ro, order_id |-> id, body |-> NoBody] :
        ro \in {"staff", None}, id \in OrderIdInputs}

NoRequest == [endpoint |-> None, role |-> None, order_id |-> 0, body |-> NoBody]

\* What orders.db may hold when the process starts: nothing, or one order
\* written by an earlier run.
InitialTables ==
    {{}} \cup {{[id |-> 1, customer_email |-> Lowercase,
                 item |-> Widget, status |-> st]} : st \in {"created", "processing"}}

----------------------------------------------------------------------------
VARIABLES
    orders,     \* the rows of table "orders" (committed state of orders.db)
    rq,         \* per request: its input, position, session and objects
    log,        \* per request: the records it wrote to the logger, in order
    trace       \* per request: the steps it has taken, in order (history)

vars == <<orders, rq, log, trace>>

IdleRequest ==
    [pc       |-> "idle",       \* idle, query, commit, refresh, sent, done
     req      |-> NoRequest,
     db       |-> "none",       \* the Session of get_db: none, open, closed
     user     |-> None,         \* staff_required's return value
     order_in |-> NoBody,       \* the validated body
     order    |-> NoOrder,      \* the ORM object the handler holds
     tasks    |-> <<>>,         \* background_tasks, in the order added
     ran      |-> 0,            \* how many of them have been run
     response |-> NoResponse]

Init ==
    /\ orders \in InitialTables
    /\ rq = [r \in Req |-> IdleRequest]
    /\ log = [r \in Req |-> <<>>]
    /\ trace = [r \in Req |-> <<>>]

----------------------------------------------------------------------------
(* Request handling.                                                       *)

Emit(r, record) == [log EXCEPT ![r] = Append(@, record)]

Did(r, steps) == [trace EXCEPT ![r] = @ \o steps]

\* Faulty variant of get_db: close() after the yield without a finally, so that it
\* is skipped when the request ended with an exception.
get_db_noclose(db, response) ==
    IF response.status_code >= 400 THEN db ELSE "closed"

(* def get_db(): the code after the yield.  The finally clause closes the  *)
(* session whatever response the request ended with.                       *)
get_db(db, response) == "closed"

(* def mock_send_email(email, order_id, status): the record it logs.       *)
mock_send_email(email, order_id, status) ==
    [event |-> "notification_sent", order_id |-> order_id,
     email |-> email, status |-> status]

(* The parameters of a handler, resolved in the order FastAPI resolves     *)
(* them: the Depends() in signature order (get_db, then staff_required),   *)
(* then the body.  An HTTPException raised by a dependency ends the        *)
(* resolution; a body that does not validate is answered 422.              *)
solve_dependencies(q) ==
    LET gate  == IF q.endpoint = "get_order"
                 THEN [raised |-> FALSE, user |-> None, response |-> NoResponse]
                 ELSE staff_required(q.role)
        valid == CASE q.endpoint = "create_order" -> OrderCreate(q.body)
                   [] q.endpoint = "update_order" -> OrderUpdate(q.body)
                   [] OTHER -> TRUE
        body  == IF q.endpoint = "create_order"
                 THEN [q.body EXCEPT !.customer_email = EmailStr(@)]
                 ELSE q.body
    IN  IF gate.raised
        THEN [steps |-> <<"get_db", "staff_required", "response">>,
              response |-> gate.response, user |-> None, order_in |-> NoBody]
        ELSE IF ~valid
        THEN [steps |-> <<"get_db", "staff_required", "validate", "response">>,
              response |-> ValidationError, user |-> gate.user, order_in |-> NoBody]
        ELSE [steps |-> <<"get_db", "staff_required", "validate">>,
              response |-> NoResponse, user |-> gate.user, order_in |-> body]

\* The first database round trip of each handler.
Entry(endpoint) == IF endpoint = "create_order" THEN "commit" ELSE "query"

(* A request arrives: its session is opened and its parameters resolved.   *)
Receive(r) ==
    /\ rq[r].pc = "idle"
    /\ \A o \in Req : o < r => rq[o].pc # "idle"
    /\ \E q \in CreateRequests \cup UpdateRequests \cup GetRequests :
         LET d == solve_dependencies(q) IN
         /\ rq' = [rq EXCEPT ![r] =
                     [@ EXCEPT !.req = q,
                               !.db = "open",
                               !.user = d.user,
                               !.order_in = d.order_in,
                               !.response = d.response,
                               !.pc = IF d.response = NoResponse
                                      THEN Entry(q.endpoint) ELSE "sent"]]
         /\ trace' = Did(r, d.steps)
    /\ UNCHANGED <<orders, log>>

(* create_order, lines 102-104: INSERT and COMMIT.  The session expires    *)
(* the object's attributes on commit; only its identity is kept.           *)
create_order_commit(r) ==
    /\ rq[r].pc = "commit"
    /\ rq[r].req.endpoint = "create_order"
    /\ LET order == Order(NextId(orders), rq[r].order_in.customer_email,
                          rq[r].order_in.item) IN
       /\ orders' = orders \cup {order}
       /\ rq' = [rq EXCEPT ![r] = [@ EXCEPT !.order = order, !.pc = "refresh"]]
    /\ trace' = Did(r, <<"commit">>)
    /\ UNCHANGED log

(* create_order, lines 105-107: SELECT the row again, log, return.         *)
create_order_return(r) ==
    /\ rq[r].pc = "refresh"
    /\ rq[r].req.endpoint = "create_order"
    /\ LET order == Row(orders, rq[r].order.id) IN
       /\ log' = Emit(r, [event |-> "order_created", order_id |-> order.id,
                          user |-> rq[r].user])
       /\ rq' = [rq EXCEPT ![r] =
                   [@ EXCEPT !.order = order,
                             !.response = OrderResponse(201, order),
                             !.pc = "sent"]]
    /\ trace' = Did(r, <<"refresh", "audit", "response">>)
    /\ UNCHANGED orders

(* update_order, lines 117-119: SELECT by id, 404 when there is no row.    *)
update_order_query(r) ==
    /\ rq[r].pc = "query"
    /\ rq[r].req.endpoint = "update_order"
    /\ IF first(orders, rq[r].req.order_id) # NoOrder
       THEN /\ rq' = [rq EXCEPT ![r] =
                        [@ EXCEPT !.order = first(orders, rq[r].req.order_id),
                                  !.pc = "commit"]]
            /\ trace' = Did(r, <<"query">>)
       ELSE /\ rq' = [rq EXCEPT ![r] =
                        [@ EXCEPT !.response =
                                     custom_http_exception_handler(404, "Order not found."),
                                  !.pc = "sent"]]
            /\ trace' = Did(r, <<"query", "response">>)
    /\ UNCHANGED <<orders, log>>

(* The unit of work flushed by commit: an UPDATE of the status column when *)
(* the assigned value differs from the one the session loaded, nothing     *)
(* when it is the same value.                                              *)
Flush(table, order, status) ==
    IF status = order.status THEN table ELSE SetStatus(table, order.id, status)

(* update_order, lines 120-123: assign the status, flush and COMMIT.       *)
update_order_commit(r) ==
    /\ rq[r].pc = "commit"
    /\ rq[r].req.endpoint = "update_order"
    /\ orders' = Flush(orders, rq[r].order, rq[r].order_in.status)
    /\ rq' = [rq EXCEPT ![r] =
                [@ EXCEPT !.order.status = rq[r].order_in.status, !.pc = "refresh"]]
    /\ trace' = Did(r, <<"commit">>)
    /\ UNCHANGED log

\* Faulty variant of update_order_return: mock_send_email called in the handler
\* instead of being handed to background_tasks.
update_order_return_inline(r) ==
    /\ rq[r].pc = "refresh"
    /\ rq[r].req.endpoint = "update_order"
    /\ LET order == Row(orders, rq[r].order.id) IN
       /\ log' = [log EXCEPT ![r] =
                    @ \o << [event |-> "order_updated", order_id |-> order.id,
                             user |-> rq[r].user],
                            [event |-> "notification_sent", order_id |-> order.id,
                             email |-> order.customer_email, status |-> order.status] >>]
       /\ rq' = [rq EXCEPT ![r] =
                   [@ EXCEPT !.order = order,
                             !.response = OrderResponse(200, order),
                             !.pc = "sent"]]
    /\ trace' = Did(r, <<"refresh", "audit", "notify", "response">>)
    /\ UNCHANGED orders

\* Faulty variant of update_order_return: the add_task line duplicated.
update_order_return_twice(r) ==
    /\ rq[r].pc = "refresh"
    /\ rq[r].req.endpoint = "update_order"
    /\ LET order == Row(orders, rq[r].order.id)
           task  == [email |-> order.customer_email, order_id |-> order.id,
                     status |-> order.status] IN
       /\ log' = Emit(r, [event |-> "order_updated", order_id |-> order.id,
                          user |-> rq[r].user])
       /\ rq' = [rq EXCEPT ![r] =
                   [@ EXCEPT !.order = order,
                             !.tasks = @ \o <<task, task>>,
                             !.response = OrderResponse(200, order),
                             !.pc = "sent"]]
    /\ trace' = Did(r, <<"refresh", "audit", "schedule", "schedule", "response">>)
    /\ UNCHANGED orders

(* update_order, lines 124-127: SELECT the row again, log, schedule the    *)
(* notification with the refreshed object's fields, return.                *)
update_order_return(r) ==
    /\ rq[r].pc = "refresh"
    /\ rq[r].req.endpoint = "update_order"
    /\ LET order == Row(orders, rq[r].order.id) IN
       /\ log' = Emit(r, [event |-> "order_updated", order_id |-> order.id,
                          user |-> rq[r].user])
       /\ rq' = [rq EXCEPT ![r] =
                   [@ EXCEPT !.order = order,
                             !.tasks = Append(@, [email |-> order.customer_email,
                                                  order_id |-> order.id,
                                                  status |-> order.status]),
                             !.response = OrderResponse(200, order),
                             !.pc = "sent"]]
    /\ trace' = Did(r, <<"refresh", "audit", "schedule", "response">>)
    /\ UNCHANGED orders

(* get_order, lines 131-134.                                               *)
get_order(r) ==
    /\ rq[r].pc = "query"
    /\ rq[r].req.endpoint = "get_order"
    /\ IF first(orders, rq[r].req.order_id) # NoOrder
       THEN rq' = [rq EXCEPT ![r] =
                     [@ EXCEPT !.order = first(orders, rq[r].req.order_id),
                               !.response =
                                   OrderResponse(200, first(orders, rq[r].req.order_id)),
                               !.pc = "sent"]]
       ELSE rq' = [rq EXCEPT ![r] =
                     [@ EXCEPT !.response =
                                  custom_http_exception_handler(404, "Order not found."),
                               !.pc = "sent"]]
    /\ trace' = Did(r, <<"query", "response">>)
    /\ UNCHANGED <<orders, log>>

(* The commit raises (the database is locked or unreachable): nothing is   *)
(* written and the exception leaves the handler.                           *)
commit_fails(r) ==
    /\ rq[r].pc = "commit"
    /\ rq' = [rq EXCEPT ![r] = [@ EXCEPT !.response = ServerError, !.pc = "sent"]]
    /\ trace' = Did(r, <<"commit_failed", "response">>)
    /\ UNCHANGED <<orders, log>>

(* The background tasks of a request run once its response is prepared.    *)
(* A task that works logs its record; one that raises logs nothing, and    *)
(* nothing is told to the caller.                                          *)
run_background_tasks(r) ==
    /\ rq[r].pc \in {"sent", "done"}
    /\ rq[r].ran < Len(rq[r].tasks)
    /\ LET t == rq[r].tasks[rq[r].ran + 1] IN
       \E delivered \in BOOLEAN :
         /\ log' = IF delivered
                   THEN Emit(r, mock_send_email(t.email, t.order_id, t.status))
                   ELSE log
         /\ trace' = Did(r, <<IF delivered THEN "notify" ELSE "notify_failed">>)
    /\ rq' = [rq EXCEPT ![r] = [@ EXCEPT !.ran = @ + 1]]
    /\ UNCHANGED orders

(* The request's dependencies are torn down: get_db resumes after its      *)
(* yield.  Depending on the FastAPI release this happens before or after   *)
(* the background tasks.                                                   *)
teardown(r) ==
    /\ rq[r].pc = "sent"
    /\ rq' = [rq EXCEPT ![r] =
                [@ EXCEPT !.db = get_db(rq[r].db, rq[r].response), !.pc = "done"]]
    /\ trace' = Did(r, IF get_db(rq[r].db, rq[r].response) = "closed"
                       THEN <<"close">> ELSE <<>>)
    /\ UNCHANGED <<orders, log>>

Step(r) ==
    \/ Receive(r)
    \/ create_order_commit(r)
    \/ create_order_return(r)
    \/ update_order_query(r)
    \/ update_order_commit(r)
    \/ update_order_return(r)
    \/ get_order(r)
    \/ run_background_tasks(r)
    \/ teardown(r)

Finished(r) == rq[r].pc = "done" /\ rq[r].ran = Len(rq[r].tasks)

Quiet(r) == rq[r].pc = "idle" \/ Finished(r)

\* Requests interleave freely; the store never fails.
Next == \E r \in Req : Step(r)

Spec == Init /\ [][Next]_vars

\* As Spec, and a commit may fail.
NextFault == \E r \in Req : Step(r) \/ commit_fails(r)

SpecFault == Init /\ [][NextFault]_vars

\* A client that sends one request at a time and waits for it to end.
NextSeq == \E r \in Req : (\A o \in Req \ {r} : Quiet(o)) /\ Step(r)

SpecSeq == Init /\ [][NextSeq]_vars

----------------------------------------------------------------------------
(* Vocabulary of the properties.                                           *)

Forbidden == [status_code |-> 403, detail |-> "Staff privileges required.",
              order |-> NoOrder]

NotFound == [status_code |-> 404, detail |-> "Order not found.", order |-> NoOrder]

Mutating(q) == q.endpoint \in {"create_order", "update_order"}

Answered(r) == rq[r].response # NoResponse

\* How often request r has taken step e, and where in its history (0: never).
Times(r, e) == Count(trace[r], e)
Pos(r, e) == IndexOf(trace[r], e, 1)

\* A create body that must be refused.
BadCreateBody(b) ==
    \/ b.customer_email = NoAtSign
    \/ Len(b.item) = 0
    \/ Len(b.item) > 100

ValidStatus(st) == st \in {"created", "processing", "completed", "cancelled"}

----------------------------------------------------------------------------
\* C1: a create_order or update_order request whose role is absent or not
\* exactly "staff" is answered 403 "Staff privileges required." whatever its
\* body and whether or not the order exists; no step it takes changes the
\* table, it logs nothing and schedules no notification.
C1_ForbiddenNoSideEffects ==
    [][\A r \in Req :
         (Mutating(rq'[r].req) /\ rq'[r].req.role # "staff") =>
            /\ rq'[r].response = Forbidden
            /\ rq'[r].tasks = <<>>
            /\ log'[r] = <<>>
            /\ Times(r, "commit")' = 0
            /\ (rq'[r] # rq[r] => orders' = orders)]_vars

\* A request without the header on an order that exists, and one with the
\* role in the wrong case and a valid body, have both ended with 403.
C1_Witness ==
    \E r1, r2 \in Req :
       /\ rq[r1].req.endpoint = "update_order" /\ rq[r1].req.role = None
       /\ rq[r1].req.order_id \in Ids(orders)
       /\ Finished(r1) /\ rq[r1].response = Forbidden
       /\ rq[r2].req.endpoint = "create_order" /\ rq[r2].req.role = "Staff"
       /\ ~BadCreateBody(rq[r2].req.body)
       /\ Finished(r2) /\ rq[r2].response = Forbidden

\* C6: a staff create_order whose email is invalid or whose item has length
\* 0 or more than 100, and a staff update_order whose status is none of the
\* four, is answered 422; it never queries or commits and no step it takes
\* changes the table.
C6_InvalidBodyRejected ==
    [][\A r \in Req :
         LET q == rq'[r].req IN
         (/\ q.role = "staff"
          /\ \/ q.endpoint = "create_order" /\ BadCreateBody(q.body)
             \/ q.endpoint = "update_order" /\ ~ValidStatus(q.body.status)) =>
            /\ rq'[r].response.status_code = 422
            /\ Times(r, "query")' = 0
            /\ Times(r, "commit")' = 0
            /\ log'[r] = <<>>
            /\ (rq'[r] # rq[r] => orders' = orders)]_vars

\* A staff create with an item of 101 characters and a staff update of an
\* existing order with status "shipped" have both ended with 422.
C6_Witness ==
    \E r1, r2 \in Req :
       /\ rq[r1].req.endpoint = "create_order" /\ rq[r1].req.role = "staff"
       /\ Len(rq[r1].req.body.item) = 101
       /\ Finished(r1) /\ rq[r1].response.status_code = 422
       /\ rq[r2].req.endpoint = "update_order" /\ rq[r2].req.role = "staff"
       /\ rq[r2].req.body.status = "shipped"
       /\ rq[r2].req.order_id \in Ids(orders)
       /\ Finished(r2) /\ rq[r2].response.status_code = 422

\* C8: whatever requests ran and however they interleaved (commits that fail
\* included), no two stored orders share an id, every stored status is one
\* of the four, and every step keeps each stored order in the table with
\* its id, customer_email and item.
C8_StoreInvariants ==
    /\ [](\A o1, o2 \in orders : o1.id = o2.id => o1 = o2)
    /\ [](\A o \in orders : ValidStatus(o.status))
    /\ [][\A o \in orders : \E n \in orders' :
             /\ n.id = o.id
             /\ n.customer_email = o.customer_email
             /\ n.item = o.item]_vars

\* Two orders are stored, one of them updated since it was created, and
\* every request has ended.
C8_Witness ==
    /\ Cardinality(orders) = 2
    /\ \E o \in orders : o.status = "completed"
    /\ \E r \in Req : rq[r].req.endpoint = "create_order" /\ rq[r].response.status_code = 201
    /\ \A r \in Req : Finished(r)

\* C10: a request that has ended has closed its session, exactly once,
\* whatever it was answered (200, 201, 403, 404, 422, or 500 after a failed
\* commit); until then the session it acquired is open.
C10_SessionReleased ==
    \A r \in Req :
       /\ rq[r].pc = "done" => rq[r].db = "closed" /\ Times(r, "close") = 1
       /\ rq[r].pc \notin {"idle", "done"} => rq[r].db = "open" /\ Times(r, "close") = 0
       /\ rq[r].pc = "idle" => rq[r].db = "none"

\* A request refused by staff_required and one whose commit failed have
\* both ended, sessions closed.
C10_Witness ==
    \E r1, r2 \in Req :
       /\ rq[r1].response = Forbidden /\ Pos(r1, "get_db") = 1
       /\ rq[r1].pc = "done" /\ rq[r1].db = "closed"
       /\ rq[r2].response.status_code = 500
       /\ rq[r2].pc = "done" /\ rq[r2].db = "closed"

\* C9: in a successful update_order the commit comes first, then the
\* order_updated record, then the scheduling of the notification, then the
\* response, each once, and the notification runs only after the response;
\* a response, once prepared, is never changed, whether the notification is
\* delivered or fails.
C9_UpdateOrdering ==
    /\ [](\A r \in Req :
            (rq[r].req.endpoint = "update_order" /\ rq[r].response.status_code = 200) =>
               /\ Times(r, "commit") = 1 /\ Times(r, "audit") = 1
               /\ Times(r, "schedule") = 1 /\ Times(r, "response") = 1
               /\ Pos(r, "commit") < Pos(r, "audit")
               /\ Pos(r, "audit") < Pos(r, "schedule")
               /\ Pos(r, "schedule") < Pos(r, "response")
               /\ Pos(r, "notify") # 0 => Pos(r, "response") < Pos(r, "notify")
               /\ Pos(r, "notify_failed") # 0 =>
                     Pos(r, "response") < Pos(r, "notify_failed")
               /\ log[r][1].event = "order_updated")
    /\ [][\A r \in Req : Answered(r) => rq'[r].response = rq[r].response]_vars

\* Two updates with the same input have ended, one with its notification
\* delivered and one with it failed, and their responses are the same 200.
C9_Witness ==
    \E r1, r2 \in Req :
       /\ rq[r1].req.endpoint = "update_order" /\ rq[r1].req = rq[r2].req
       /\ Finished(r1) /\ Finished(r2)
       /\ Pos(r1, "notify") # 0 /\ Pos(r2, "notify_failed") # 0
       /\ rq[r1].response.status_code = 200
       /\ rq[r1].response = rq[r2].response

\* C3, as claimed: every staff update_order with a valid status on an order
\* that exists is answered 200 with the submitted status in the returned
\* order, however the requests interleave.
C3_ReturnedStatusIsSubmitted ==
    \A r \in Req :
       (/\ rq[r].req.endpoint = "update_order"
        /\ rq[r].req.role = "staff"
        /\ ValidStatus(rq[r].req.body.status)
        /\ Answered(r)
        /\ rq[r].response # NotFound) =>
          /\ rq[r].response.status_code = 200
          /\ rq[r].response.order.status = rq[r].req.body.status

\* C4, as claimed: a request schedules a notification exactly when it is an
\* update_order answered 200, then exactly one, carrying the order's email,
\* its id and the status the request submitted, and it is attempted once.
C4_OneNotificationPerUpdate ==
    \A r \in Req :
       Answered(r) =>
          IF rq[r].req.endpoint = "update_order" /\ rq[r].response.status_code = 200
          THEN /\ Len(rq[r].tasks) = 1
               /\ rq[r].tasks[1] =
                     [email    |-> rq[r].response.order.customer_email,
                      order_id |-> rq[r].req.order_id,
                      status   |-> rq[r].req.body.status]
               /\ Times(r, "notify") + Times(r, "notify_failed") = rq[r].ran
               /\ Finished(r) => rq[r].ran = 1
          ELSE rq[r].tasks = <<>> /\ rq[r].ran = 0

\* C5, as claimed: every staff update_order and every get_order naming an
\* id that is not stored is answered 404 "Order not found.".
C5_MissingIdIs404 ==
    \A r \in Req :
       (/\ Answered(r)
        /\ \/ rq[r].req.endpoint = "update_order" /\ rq[r].req.role = "staff"
           \/ rq[r].req.endpoint = "get_order"
        /\ rq[r].req.order_id \notin Ids(orders)) =>
          rq[r].response = NotFound

\* C5, amended: a staff update_order with a valid status, and a get_order
\* with any role, that looks up an id not in the table is answered 404
\* "Order not found."; a request answered 404 has logged nothing, scheduled
\* nothing, committed nothing, and no step it takes changes the table.
C5_MissingIdIs404Amended ==
    [][\A r \in Req :
         LET q == rq'[r].req IN
         /\ (/\ \/ q.endpoint = "update_order" /\ q.role = "staff"
                   /\ ValidStatus(q.body.status)
                \/ q.endpoint = "get_order"
             /\ rq[r].pc = "query" /\ rq'[r].pc # "query"
             /\ q.order_id \notin Ids(orders)) => rq'[r].response = NotFound
         /\ rq'[r].response = NotFound =>
               /\ log'[r] = <<>>
               /\ rq'[r].tasks = <<>>
               /\ Times(r, "commit")' = 0
               /\ (rq'[r] # rq[r] => orders' = orders)]_vars

\* A staff update and a get by a caller without a role, both of an id that
\* is not stored, have ended with 404.
C5_Witness ==
    \E r1, r2 \in Req :
       /\ rq[r1].req.endpoint = "update_order" /\ rq[r1].req.role = "staff"
       /\ rq[r2].req.endpoint = "get_order" /\ rq[r2].req.role = None
       /\ rq[r1].req.order_id \notin Ids(orders)
       /\ rq[r2].req.order_id \notin Ids(orders)
       /\ Finished(r1) /\ Finished(r2)
       /\ rq[r1].response = NotFound /\ rq[r2].response = NotFound

----------------------------------------------------------------------------
(* Properties of one request directly after another (SpecSeq).             *)

\* got is sent with the part after the "@" in lower case.
DomainLowered(sent, got) ==
    /\ Len(got) = Len(sent)
    /\ \A i \in 1..Len(sent) :
          got[i] = IF i > IndexOf(sent, "@", 1) THEN Lower(sent[i]) ELSE sent[i]

\* The get_order that directly follows create r and asks for the id it
\* returned is answered 200 with the order create r returned.
ReadBack(r) ==
    \A g \in Req :
       (/\ g = r + 1
        /\ rq[g].req.endpoint = "get_order"
        /\ rq[g].req.order_id = rq[r].response.order.id
        /\ Answered(g)) =>
          rq[g].response =
             [status_code |-> 200, detail |-> None, order |-> rq[r].response.order]

ValidStaffCreate(r) ==
    /\ rq[r].req.endpoint = "create_order"
    /\ rq[r].req.role = "staff"
    /\ ~BadCreateBody(rq[r].req.body)
    /\ Answered(r)

\* C2, as claimed: a valid staff create_order is answered 201 with status
\* "created" and the body's customer_email and item, and the get_order that
\* follows returns the same representation.
C2_CreateThenGet ==
    \A r \in Req :
       ValidStaffCreate(r) =>
          /\ rq[r].response.status_code = 201
          /\ rq[r].response.order.status = "created"
          /\ rq[r].response.order.customer_email = rq[r].req.body.customer_email
          /\ rq[r].response.order.item = rq[r].req.body.item
          /\ ReadBack(r)

\* C2, amended: a valid staff create_order is answered 201 with status
\* "created", the body's item, and the body's customer_email with its domain
\* in lower case; the get_order that follows returns the same representation.
C2_CreateThenGetAmended ==
    \A r \in Req :
       ValidStaffCreate(r) =>
          /\ rq[r].response.status_code = 201
          /\ rq[r].response.order.status = "created"
          /\ DomainLowered(rq[r].req.body.customer_email,
                           rq[r].response.order.customer_email)
          /\ rq[r].response.order.item = rq[r].req.body.item
          /\ rq[r].response.order.id \notin {0} \cup {rq[o].response.order.id : o \in 1..(r - 1)}
          /\ ReadBack(r)

\* An order created from an address with an upper-case domain has been read
\* back by the next request.
C2_Witness ==
    \E r, g \in Req :
       /\ ValidStaffCreate(r) /\ Finished(r)
       /\ rq[r].req.body.customer_email = Uppercase
       /\ g = r + 1 /\ Finished(g)
       /\ rq[g].req.endpoint = "get_order"
       /\ rq[g].req.order_id = rq[r].response.order.id
       /\ rq[g].response.status_code = 200

\* update_order r2 directly follows update_order r1, with the same id,
\* status and role, and r1 was answered 200.
Repeats(r1, r2) ==
    /\ r2 = r1 + 1
    /\ rq[r1].req.endpoint = "update_order"
    /\ rq[r2].req = rq[r1].req
    /\ rq[r1].response.status_code = 200

\* C7, as claimed: the repeated update is answered as the first was, no
\* step of it changes the table, and all it leaves behind is a
\* notification attempt.
C7_RepeatChangesNothing ==
    [][\A r1, r2 \in Req :
         Repeats(r1, r2)' =>
            /\ Answered(r2)' => rq'[r2].response = rq'[r1].response
            /\ rq'[r2] # rq[r2] => orders' = orders
            /\ Len(rq'[r2].tasks) <= 1
            /\ \A i \in 1..Len(log'[r2]) : log'[r2][i].event = "notification_sent"]_vars

\* C7, amended: the repeated update is answered as the first was (200, the
\* same order), no step of it changes the table, and what it leaves behind
\* is a second order_updated audit record and a second notification attempt.
C7_RepeatAddsAuditAndNotification ==
    [][\A r1, r2 \in Req :
         Repeats(r1, r2)' =>
            /\ Answered(r2)' => rq'[r2].response = rq'[r1].response
            /\ rq'[r2] # rq[r2] => orders' = orders
            /\ Len(rq'[r2].tasks) <= 1
            /\ Len(log'[r2]) <= 2
            /\ Len(log'[r2]) >= 1 => log'[r2][1] = log'[r1][1]
            /\ Len(log'[r2]) = 2 => log'[r2][2].event = "notification_sent"
            /\ Answered(r2)' => Len(log'[r2]) >= 1 /\ Len(rq'[r2].tasks) = 1]_vars

\* The same update has run twice, one after the other, both notifications
\* delivered.
C7_Witness ==
    \E r1, r2 \in Req :
       /\ Repeats(r1, r2)
       /\ Finished(r1) /\ Finished(r2)
       /\ rq[r2].response.status_code = 200
       /\ Len(log[r1]) = 2 /\ Len(log[r2]) = 2

====
